---- MODULE Spec2Model ----
(***************************************************************************)
(* A model of the radiotap crate: the builder (RadiotapBuilder), the       *)
(* serializer (Radiotap::unparse), the header-driven field iterator        *)
(* (RadiotapIteratorIntoIter::next) and the parser (Radiotap::parse).      *)
(*                                                                         *)
(* Option<T> is modelled as a sequence of length <= 1: <<>> is None and    *)
(* <<x>> is Some(x).  A Kind is a record [name, vns]; vns is the Option of *)
(* the decoded vendor descriptor (always None for the plain kinds).        *)
(***************************************************************************)
EXTENDS Integers, Sequences, FiniteSets, TLC

VARIABLES
    pc,         \* position of the modelled caller
    origin,     \* where the value / the bytes under test came from
    calls,      \* builder: the setter calls made so far, <<name, value>>
    inner,      \* builder: RadiotapBuilder.inner
    reference,  \* the Radiotap value handed to unparse (Option)
    buf,        \* the byte buffer handed to parse
    written,    \* the result of unparse: [size, pads] (Option)
    iterator,   \* RadiotapIterator {header, data} (Option)
    rest,       \* the bytes after the governed region
    iter,       \* RadiotapIteratorIntoIter {present, cursor position}
    radiotap,   \* Radiotap::parse's local value being filled
    yielded,    \* the items next() has returned so far
    ret         \* what Radiotap::parse returned (Option)

vars == <<pc, origin, calls, inner, reference, buf, written, iterator, rest,
          iter, radiotap, yielded, ret>>

(***************************************************************************)
(* Bounds of the model.                                                    *)
(***************************************************************************)
MaxCalls == 3       \* setter calls per builder
MaxSkip == 2        \* largest skip_length of a generated vendor section
MaxDelta == 3       \* how far a generated header's declared length lies
MaxTrail == 2       \* bytes that may follow a generated capture

Values == {1, 2}    \* field values handed to the setters

(***************************************************************************)
(* The Kind catalog (field module).                                        *)
(***************************************************************************)
None == <<>>
Some(x) == <<x>>

BitOf ==
    [TSFT |-> 0, Flags |-> 1, Rate |-> 2, Channel |-> 3, FHSS |-> 4,
     AntennaSignal |-> 5, AntennaNoise |-> 6, LockQuality |-> 7,
     TxAttenuation |-> 8, TxAttenuationDb |-> 9, TxPower |-> 10,
     Antenna |-> 11, AntennaSignalDb |-> 12, AntennaNoiseDb |-> 13,
     RxFlags |-> 14, TxFlags |-> 15, RTSRetries |-> 16, DataRetries |-> 17,
     XChannel |-> 18, MCS |-> 19, AMPDUStatus |-> 20, VHT |-> 21,
     Timestamp |-> 22]

\* The kinds that have a typed slot in Radiotap.
SlotNames == DOMAIN BitOf

Plain(name) == [name |-> name, vns |-> None]

VendorNamespaceKind(vns) == [name |-> "VendorNamespace", vns |-> vns]

bit(kind) ==
    IF kind.name = "VendorNamespace" THEN 30 ELSE BitOf[kind.name]

align(kind) ==
    CASE kind.name \in {"TSFT", "Timestamp"} -> 8
      [] kind.name \in {"XChannel", "AMPDUStatus"} -> 4
      [] kind.name \in {"Channel", "FHSS", "LockQuality", "TxAttenuation",
                        "TxAttenuationDb", "RxFlags", "TxFlags", "VHT",
                        "VendorNamespace"} -> 2
      [] OTHER -> 1

size(kind) ==
    CASE kind.name \in {"VHT", "Timestamp"} -> 12
      [] kind.name \in {"TSFT", "XChannel", "AMPDUStatus"} -> 8
      [] kind.name = "VendorNamespace" -> 6
      [] kind.name = "Channel" -> 4
      [] kind.name = "MCS" -> 3
      [] kind.name \in {"FHSS", "LockQuality", "TxAttenuation",
                        "TxAttenuationDb", "RxFlags", "TxFlags"} -> 2
      [] OTHER -> 1

\* Kind::new: the kind of a presence bit, None for an unsupported bit.
KindNew(b) ==
    IF \E n \in SlotNames : BitOf[n] = b
    THEN Some(Plain(CHOOSE n \in SlotNames : BitOf[n] = b))
    ELSE None

(***************************************************************************)
(* Integer helpers: x & !m on unsigned integers, and the Align trait.      *)
(***************************************************************************)
RECURSIVE AndNot(_, _)
AndNot(x, m) ==
    IF x = 0 THEN 0
    ELSE 2 * AndNot(x \div 2, m \div 2)
         + (IF x % 2 = 1 /\ m % 2 = 0 THEN 1 ELSE 0)

\* Mutant: rounds up from p + align, so an aligned offset is padded too.
AlignUp_PadsAligned(p, a) == AndNot(p + a, a - 1)

\* (p + align - 1) & !(align - 1)
AlignUp(p, a) == AndNot(p + a - 1, a - 1)

RECURSIVE Zeros(_)
Zeros(n) == IF n <= 0 THEN <<>> ELSE <<0>> \o Zeros(n - 1)

(***************************************************************************)
(* Header::default and Radiotap::default.                                  *)
(***************************************************************************)
DefaultVersion == 0
DefaultLength == 8
DefaultSize == 8

DefaultHeader ==
    [version |-> DefaultVersion, length |-> DefaultLength,
     present |-> <<>>, size |-> DefaultSize]

DefaultRadiotap ==
    [header |-> DefaultHeader, slots |-> [n \in SlotNames |-> None]]

(***************************************************************************)
(* RadiotapBuilder.                                                        *)
(***************************************************************************)
Contains(s, x) == \E i \in 1..Len(s) : s[i] = x

\* Mutant: the setter pushes the kind without looking for it.
Setter_NoDedup(t, name, value) ==
    [header |-> [t.header EXCEPT !.present = Append(@, Plain(name))],
     slots |-> [t.slots EXCEPT ![name] = Some(value)]]

\* Mutant: the setter stores the value and leaves present alone.
Setter_SlotOnly(t, name, value) ==
    [header |-> t.header,
     slots |-> [t.slots EXCEPT ![name] = Some(value)]]

\* field!: one setter; pushes the kind unless present, then stores the value.
Setter(t, name, value) ==
    [header |->
        [t.header EXCEPT !.present =
            IF Contains(t.header.present, Plain(name)) THEN @
            ELSE Append(@, Plain(name))],
     slots |-> [t.slots EXCEPT ![name] = Some(value)]]

\* Vec::sort_by_key(|kind| kind.bit()): a stable sort.
RECURSIVE InsertByBit(_, _)
InsertByBit(sorted, k) ==
    IF sorted = <<>> THEN <<k>>
    ELSE IF bit(sorted[Len(sorted)]) <= bit(k) THEN Append(sorted, k)
    ELSE Append(InsertByBit(SubSeq(sorted, 1, Len(sorted) - 1), k),
                sorted[Len(sorted)])

RECURSIVE SortByBit(_)
SortByBit(s) ==
    IF s = <<>> THEN <<>>
    ELSE InsertByBit(SortByBit(SubSeq(s, 1, Len(s) - 1)), s[Len(s)])

\* Mutant: the fold adds the size without aligning first.
FoldStep_NoAlign(length, kind) == length + size(kind)

\* Mutant: the fold aligns after adding the size.
FoldStep_AlignAfter(length, kind) ==
    AlignUp(length + size(kind), align(kind))

\* The closure of done()'s fold: one present kind added to the length.
FoldStep(length, kind) == AlignUp(length, align(kind)) + size(kind)

RECURSIVE Fold(_, _)
Fold(length, present) ==
    IF present = <<>> THEN length
    ELSE Fold(FoldStep(length, Head(present)), Tail(present))

\* Mutant: done() folds over the present list without sorting it.
Done_NoSort(t) ==
    [t EXCEPT !.header.length = Fold(t.header.length, t.header.present)]

Done(t) ==
    LET sorted == SortByBit(t.header.present)
    IN [t EXCEPT !.header.present = sorted,
                 !.header.length = Fold(t.header.length, sorted)]

(***************************************************************************)
(* Field codecs (field module): a field value is an unsigned integer       *)
(* written little-endian on the kind's size() bytes.                       *)
(***************************************************************************)
RECURSIVE LEBytes(_, _)
LEBytes(v, n) ==
    IF n = 0 THEN <<>> ELSE <<v % 256>> \o LEBytes(v \div 256, n - 1)

RECURSIVE LEValue(_)
LEValue(bytes) ==
    IF bytes = <<>> THEN 0
    ELSE IF \A i \in 2..Len(bytes) : bytes[i] = 0 THEN Head(bytes)
    ELSE Head(bytes) + 256 * LEValue(Tail(bytes))

\* from_bytes_some: decode a field from its data slice.
from_bytes_some(data) == Some(LEValue(data))

\* unparse_some: the bytes written for a slot; nothing for None.
unparse_some(slot, kind) ==
    IF slot = None THEN <<>> ELSE LEBytes(slot[1], size(kind))

(***************************************************************************)
(* Header codec (field module).                                            *)
(***************************************************************************)
\* The slice data[start..end] of Rust (0-based, end exclusive).
Slice(data, start, end) == SubSeq(data, start + 1, end)

BitsOf(present) == {bit(present[i]) : i \in 1..Len(present)}

RECURSIVE BitmapByte(_, _, _)
BitmapByte(bits, j, i) ==
    IF i > 7 THEN 0
    ELSE (IF (8 * j + i) \in bits THEN 2 ^ i ELSE 0)
         + BitmapByte(bits, j, i + 1)

\* Header::unparse: version, padding, length (u16 LE), one presence word.
HeaderUnparse(h) ==
    <<h.version, 0, h.length % 256, (h.length \div 256) % 256>>
    \o [j \in 1..4 |-> BitmapByte(BitsOf(h.present), j - 1, 0)]

\* Bit b of the little-endian u32 at offset pos.
IsBitSet(input, pos, b) ==
    (input[pos + 1 + (b \div 8)] \div (2 ^ (b % 8))) % 2 = 1

RECURSIVE KindsOfWord(_, _, _)
KindsOfWord(input, pos, b) ==
    IF b > 28 THEN <<>>
    ELSE (IF IsBitSet(input, pos, b) THEN KindNew(b) ELSE <<>>)
         \o KindsOfWord(input, pos, b + 1)

RECURSIVE ReadWords(_, _, _, _)
ReadWords(input, pos, vendor_namespace, kinds) ==
    IF pos + 4 > Len(input) THEN [ok |-> FALSE, err |-> "ParseError"]
    ELSE
        LET kinds1 == IF vendor_namespace THEN kinds
                      ELSE kinds \o KindsOfWord(input, pos, 0)
            toRadiotap == IsBitSet(input, pos, 29)
            toVendor == ~toRadiotap /\ IsBitSet(input, pos, 30)
            kinds2 == IF toVendor
                      THEN Append(kinds1, VendorNamespaceKind(None))
                      ELSE kinds1
            ns == IF toRadiotap THEN FALSE
                  ELSE IF toVendor THEN TRUE ELSE vendor_namespace
        IN IF IsBitSet(input, pos, 31)
           THEN ReadWords(input, pos + 4, ns, kinds2)
           ELSE [ok |-> TRUE, kinds |-> kinds2, size |-> pos + 4]

\* Header::from_bytes.
HeaderFromBytes(input) ==
    IF Len(input) < 1 THEN [ok |-> FALSE, err |-> "ParseError"]
    ELSE IF input[1] # DefaultVersion
    THEN [ok |-> FALSE, err |-> "UnsupportedVersion"]
    ELSE IF Len(input) < 4 THEN [ok |-> FALSE, err |-> "ParseError"]
    ELSE LET length == input[3] + 256 * input[4]
         IN IF Len(input) < length
            THEN [ok |-> FALSE, err |-> "InvalidLength"]
            ELSE LET w == ReadWords(input, 4, FALSE, <<>>)
                 IN IF ~w.ok THEN w
                    ELSE [ok |-> TRUE,
                          header |-> [version |-> input[1],
                                      length |-> length,
                                      present |-> w.kinds,
                                      size |-> w.size]]

\* VendorNamespace::from_bytes: oui (3 bytes), sub_namespace, skip_length.
VendorFromBytes(d) ==
    [oui |-> SubSeq(d, 1, 3), sub_namespace |-> d[4],
     skip_length |-> d[5] + 256 * d[6]]

(***************************************************************************)
(* Radiotap::unparse.                                                      *)
(***************************************************************************)
\* Mutant: unparse writes the field without the padding.
UnparseField_NoPad(v, kind, st) ==
    LET field == IF kind.name \in SlotNames
                 THEN unparse_some(v.slots[kind.name], kind)
                 ELSE <<>>
    IN [size |-> st.size + Len(field),
        bytes |-> st.bytes \o field,
        pads |-> Append(st.pads,
                        [kind |-> kind, offset |-> st.size, pad |-> 0,
                         wrote |-> Len(field)])]

\* One iteration of unparse's loop: the padding, then the field.
UnparseField(v, kind, st) ==
    LET aligned_size == AlignUp(st.size, align(kind))
        pad == IF st.size < aligned_size THEN aligned_size - st.size ELSE 0
        field == IF kind.name \in SlotNames
                 THEN unparse_some(v.slots[kind.name], kind)
                 ELSE <<>>
    IN [size |-> st.size + pad + Len(field),
        bytes |-> st.bytes \o Zeros(pad) \o field,
        pads |-> Append(st.pads,
                        [kind |-> kind, offset |-> st.size, pad |-> pad,
                         wrote |-> Len(field)])]

RECURSIVE UnparseFields(_, _, _)
UnparseFields(v, present, st) ==
    IF present = <<>> THEN st
    ELSE UnparseFields(v, Tail(present), UnparseField(v, Head(present), st))

Unparse(v) ==
    LET hb == HeaderUnparse(v.header)
    IN UnparseFields(v, v.header.present,
                     [size |-> Len(hb), bytes |-> hb, pads |-> <<>>])

(***************************************************************************)
(* RadiotapIterator::parse, into_iter and next.                            *)
(***************************************************************************)
\* Mutant: the remainder starts after the header's words, not the length.
SplitAtLength_RestAfterHeader(h, input) ==
    IF ~h.ok THEN [outcome |-> "Err", err |-> h.err]
    ELSE IF h.header.length > Len(input)
    THEN [outcome |-> "Panic", err |-> "split_at"]
    ELSE [outcome |-> "Ok",
          iterator |-> [header |-> h.header,
                        data |-> SubSeq(input, 1, h.header.length)],
          rest |-> SubSeq(input, h.header.size + 1, Len(input))]

\* input.split_at(header.length) after a decoded header; `?` on an error.
SplitAtLength(h, input) ==
    IF ~h.ok THEN [outcome |-> "Err", err |-> h.err]
    ELSE IF h.header.length > Len(input)
    THEN [outcome |-> "Panic", err |-> "split_at"]
    ELSE [outcome |-> "Ok",
          iterator |-> [header |-> h.header,
                        data |-> SubSeq(input, 1, h.header.length)],
          rest |-> SubSeq(input, h.header.length + 1, Len(input))]

\* Mutant: splits at the length field before the header is validated.
RadiotapIterator_parse_SplitFirst(input) ==
    IF Len(input) >= 4 /\ input[3] + 256 * input[4] > Len(input)
    THEN [outcome |-> "Panic", err |-> "split_at"]
    ELSE SplitAtLength(HeaderFromBytes(input), input)

RadiotapIterator_parse(input) ==
    SplitAtLength(HeaderFromBytes(input), input)

RECURSIVE Reverse(_)
Reverse(s) == IF s = <<>> THEN <<>> ELSE Append(Reverse(Tail(s)), Head(s))

\* Mutant: the present list is not reversed, so pop() takes the last kind
\* first.
into_iter_NoReverse(it) ==
    [present |-> it.header.present, position |-> it.header.size]

into_iter(it) ==
    [present |-> Reverse(it.header.present), position |-> it.header.size]

\* Mutant: the vendor data window keeps the descriptor bytes.
IntoIter_next_NoSplice(s, data) ==
    LET kind == s.present[Len(s.present)]
        popped == SubSeq(s.present, 1, Len(s.present) - 1)
        start == AlignUp(s.position, align(kind))
        end == start + size(kind)
    IN IF end > Len(data)
       THEN [outcome |-> "Err", err |-> "IncompleteError", popped |-> kind,
             from |-> s.position,
             state |-> [present |-> popped, position |-> start]]
       ELSE
         LET isVendor == (kind = VendorNamespaceKind(None))
             vns == VendorFromBytes(Slice(data, start, end))
             end2 == IF isVendor THEN end + vns.skip_length ELSE end
             kind2 == IF isVendor THEN VendorNamespaceKind(Some(vns))
                      ELSE kind
         IN IF end2 > Len(data)
            THEN [outcome |-> "Panic", err |-> "slice", popped |-> kind,
                  from |-> s.position,
                  state |-> [present |-> popped, position |-> start]]
            ELSE [outcome |-> "Ok", err |-> "", popped |-> kind,
                  kind |-> kind2, start |-> start, end |-> end2,
                  from |-> s.position,
                  data |-> Slice(data, start, end2),
                  state |-> [present |-> popped, position |-> end2]]

\* Mutant: a kind whose window does not fit stays on the present list.
IntoIter_next_KeepsOnError(s, data) ==
    LET kind == s.present[Len(s.present)]
        popped == SubSeq(s.present, 1, Len(s.present) - 1)
        start == AlignUp(s.position, align(kind))
        end == start + size(kind)
    IN IF end > Len(data)
       THEN [outcome |-> "Err", err |-> "IncompleteError", popped |-> kind,
             from |-> s.position,
             state |-> [present |-> s.present, position |-> start]]
       ELSE
         LET isVendor == (kind = VendorNamespaceKind(None))
             vns == VendorFromBytes(Slice(data, start, end))
             start2 == IF isVendor THEN start + size(kind) ELSE start
             end2 == IF isVendor THEN end + vns.skip_length ELSE end
             kind2 == IF isVendor THEN VendorNamespaceKind(Some(vns)) ELSE kind
         IN IF end2 > Len(data)
            THEN [outcome |-> "Panic", err |-> "slice", popped |-> kind,
                  from |-> s.position,
                  state |-> [present |-> popped, position |-> start]]
            ELSE [outcome |-> "Ok", err |-> "", popped |-> kind,
                  kind |-> kind2, start |-> start2, end |-> end2,
                  from |-> s.position,
                  data |-> Slice(data, start2, end2),
                  state |-> [present |-> popped, position |-> end2]]

\* next() on a non-empty present list: the popped kind, the new iterator
\* state and the item (Ok with its window, an Err, or a panic of the slice).
IntoIter_next(s, data) ==
    LET kind == s.present[Len(s.present)]
        popped == SubSeq(s.present, 1, Len(s.present) - 1)
        start == AlignUp(s.position, align(kind))
        end == start + size(kind)
    IN IF end > Len(data)
       THEN [outcome |-> "Err", err |-> "IncompleteError", popped |-> kind,
             from |-> s.position,
             state |-> [present |-> popped, position |-> start]]
       ELSE
         LET isVendor == (kind = VendorNamespaceKind(None))
             vns == VendorFromBytes(Slice(data, start, end))
             start2 == IF isVendor THEN start + size(kind) ELSE start
             end2 == IF isVendor THEN end + vns.skip_length ELSE end
             kind2 == IF isVendor THEN VendorNamespaceKind(Some(vns))
                      ELSE kind
         IN IF end2 > Len(data)
            THEN [outcome |-> "Panic", err |-> "slice", popped |-> kind,
                  from |-> s.position,
                  state |-> [present |-> popped, position |-> start]]
            ELSE [outcome |-> "Ok", err |-> "", popped |-> kind,
                  kind |-> kind2, start |-> start2, end |-> end2,
                  from |-> s.position,
                  data |-> Slice(data, start2, end2),
                  state |-> [present |-> popped, position |-> end2]]

\* Mutant: a slot that is already set keeps its first value.
Dispatch_KeepsFirst(t, item) ==
    IF item.kind.name \in SlotNames /\ t.slots[item.kind.name] = None
    THEN [t EXCEPT !.slots[item.kind.name] = from_bytes_some(item.data)]
    ELSE t

\* The body of Radiotap::parse's match: store the decoded field in its slot.
Dispatch(t, item) ==
    IF item.kind.name \in SlotNames
    THEN [t EXCEPT !.slots[item.kind.name] = from_bytes_some(item.data)]
    ELSE t

(***************************************************************************)
(* The inputs of the model: Radiotap struct literals (all fields of        *)
(* Radiotap and Header are public) and capture buffers.                    *)
(***************************************************************************)
BuilderKinds == {"TSFT", "Rate", "Channel", "XChannel", "Timestamp"}

LiteralKinds == {"TSFT", "Rate", "Channel"}

LiteralPresents ==
    {<<>>, <<"TSFT">>, <<"Rate">>, <<"Channel">>, <<"TSFT", "Rate">>,
     <<"TSFT", "Channel">>, <<"Rate", "Channel">>,
     <<"TSFT", "Rate", "Channel">>, <<"Rate", "Rate">>}

Kinds(names) == [i \in 1..Len(names) |-> Plain(names[i])]

\* Padding before a field, by the format's rule.
PadTo(offset, a) == (a - (offset % a)) % a

\* The end of the last field when the fields are laid out from offset.
RECURSIVE LayoutEnd(_, _)
LayoutEnd(offset, present) ==
    IF present = <<>> THEN offset
    ELSE LayoutEnd(offset + PadTo(offset, align(Head(present)))
                          + size(Head(present)),
                   Tail(present))

Literals ==
    UNION {
        {[header |-> [version |-> DefaultVersion, length |-> l,
                      present |-> Kinds(p), size |-> DefaultSize],
          slots |-> [n \in SlotNames |->
                        IF n \in set THEN Some(1) ELSE None]] :
            set \in SUBSET LiteralKinds,
            l \in {DefaultLength, LayoutEnd(DefaultSize, Kinds(p))}} :
        p \in LiteralPresents}

WordBytes(bits) == [j \in 1..4 |-> BitmapByte(bits, j - 1, 0)]

NameBits(names) == {BitOf[names[i]] : i \in 1..Len(names)}

RECURSIVE WriteNames(_, _)
WriteNames(bytes, names) ==
    IF names = <<>> THEN bytes
    ELSE LET k == Plain(Head(names))
         IN WriteNames(bytes \o Zeros(PadTo(Len(bytes), align(k)))
                             \o LEBytes(Len(names), size(k)),
                       Tail(names))

WriteVendor(bytes, skip) ==
    bytes \o Zeros(PadTo(Len(bytes), 2)) \o <<1, 2, 3, 0, skip, 0>>
          \o [i \in 1..skip |-> 7]

CapturePre ==
    {<<>>, <<"Flags">>, <<"Flags", "Channel">>,
     <<"TSFT", "Flags", "Channel">>}

CapturePost == {<<>>, <<"Flags">>, <<"Channel">>}

CaptureLayouts ==
    {[pre |-> p, vendor |-> FALSE, skip |-> 0, post |-> <<>>] :
        p \in CapturePre}
    \cup {[pre |-> p, vendor |-> TRUE, skip |-> s, post |-> q] :
            p \in CapturePre, s \in 0..MaxSkip, q \in CapturePost}

CaptureWords(l) ==
    IF ~l.vendor THEN WordBytes(NameBits(l.pre))
    ELSE IF l.post = <<>> THEN WordBytes(NameBits(l.pre) \cup {30})
    ELSE WordBytes(NameBits(l.pre) \cup {30, 31}) \o WordBytes({29, 31})
         \o WordBytes(NameBits(l.post))

\* A well-formed capture of the layout; the length field is set afterwards.
CaptureFrame(version, l) ==
    LET head == <<version, 0, 0, 0>> \o CaptureWords(l)
        pre == WriteNames(head, l.pre)
    IN IF l.vendor THEN WriteNames(WriteVendor(pre, l.skip), l.post)
       ELSE pre

Declare(frame, length) ==
    [frame EXCEPT ![3] = length % 256, ![4] = (length \div 256) % 256]

\* The capture that follows another one in a buffer of two captures.
NextCapture == <<0, 0, 9, 0>> \o WordBytes({BitOf["Rate"]}) \o <<5>>

(***************************************************************************)
(* The state machine.                                                      *)
(***************************************************************************)
Init ==
    /\ pc = "start"
    /\ origin = "none"
    /\ calls = <<>>
    /\ inner = DefaultRadiotap
    /\ reference = None
    /\ buf = <<>>
    /\ written = None
    /\ iterator = None
    /\ rest = <<>>
    /\ iter = None
    /\ radiotap = None
    /\ yielded = <<>>
    /\ ret = None

\* Radiotap::build().<name>(value)
BuilderSet ==
    /\ pc \in {"start", "building"}
    /\ Len(calls) < MaxCalls
    /\ \E name \in BuilderKinds, value \in Values :
        /\ inner' = Setter(inner, name, value)
        /\ calls' = Append(calls, <<name, value>>)
    /\ pc' = "building"
    /\ origin' = "builder"
    /\ UNCHANGED <<reference, buf, written, iterator, rest, iter, radiotap,
                   yielded, ret>>

\* RadiotapBuilder::done()
BuilderDone ==
    /\ pc \in {"start", "building"}
    /\ reference' = Some(Done(inner))
    /\ pc' = "built"
    /\ origin' = "builder"
    /\ UNCHANGED <<calls, inner, buf, written, iterator, rest, iter,
                   radiotap, yielded, ret>>

\* A caller writes a Radiotap value as a struct literal.
MakeLiteral ==
    /\ pc = "start"
    /\ \E v \in Literals : reference' = Some(v)
    /\ pc' = "built"
    /\ origin' = "literal"
    /\ UNCHANGED <<calls, inner, buf, written, iterator, rest, iter,
                   radiotap, yielded, ret>>

\* reference.unparse(&mut buff)
CallUnparse ==
    /\ pc = "built"
    /\ LET u == Unparse(reference[1])
       IN /\ buf' = u.bytes
          /\ written' = Some([size |-> u.size, pads |-> u.pads])
    /\ pc' = "input"
    /\ UNCHANGED <<origin, calls, inner, reference, iterator, rest, iter,
                   radiotap, yielded, ret>>

\* A caller holds a captured buffer: a capture, cut or extended, whose
\* header declares a length near the true one.
Capture ==
    /\ pc = "start"
    /\ \E version \in {0, 1}, l \in CaptureLayouts,
          d \in (0 - MaxDelta)..MaxDelta :
        LET frame == CaptureFrame(version, l)
            whole == Declare(frame, Len(frame) + d)
                     \o [i \in 1..MaxTrail |-> 9]
        IN \E n \in 0..Len(whole) : buf' = SubSeq(whole, 1, n)
    /\ pc' = "input"
    /\ origin' = "capture"
    /\ UNCHANGED <<calls, inner, reference, written, iterator, rest, iter,
                   radiotap, yielded, ret>>

\* A caller holds two captures back to back in one buffer.
CaptureChain ==
    /\ pc = "start"
    /\ \E l \in CaptureLayouts :
        LET frame == CaptureFrame(DefaultVersion, l)
        IN buf' = Declare(frame, Len(frame)) \o NextCapture
    /\ pc' = "input"
    /\ origin' = "chain"
    /\ UNCHANGED <<calls, inner, reference, written, iterator, rest, iter,
                   radiotap, yielded, ret>>

\* The caller parses the remainder a successful parse returned.
ParseRest ==
    /\ pc = "returned"
    /\ origin = "chain"
    /\ ret[1].outcome = "Ok"
    /\ buf' = ret[1].value[1].rest
    /\ origin' = "rest"
    /\ pc' = "input"
    /\ iterator' = None
    /\ rest' = <<>>
    /\ iter' = None
    /\ radiotap' = None
    /\ yielded' = <<>>
    /\ ret' = None
    /\ UNCHANGED <<calls, inner, reference, written>>

\* Radiotap::parse up to its loop: RadiotapIterator::parse and into_iter.
ParseHeader ==
    /\ pc = "input"
    /\ LET r == RadiotapIterator_parse(buf)
       IN IF r.outcome = "Ok"
          THEN /\ iterator' = Some(r.iterator)
               /\ rest' = r.rest
               /\ iter' = Some(into_iter(r.iterator))
               /\ radiotap' = Some([DefaultRadiotap EXCEPT
                                       !.header = r.iterator.header])
               /\ pc' = "iterating"
               /\ ret' = ret
          ELSE /\ ret' = Some([outcome |-> r.outcome, err |-> r.err,
                               value |-> None])
               /\ pc' = "returned"
               /\ UNCHANGED <<iterator, rest, iter, radiotap>>
    /\ UNCHANGED <<origin, calls, inner, reference, buf, written, yielded>>

\* One iteration of Radiotap::parse's loop: next() and the match.
ParseField ==
    /\ pc = "iterating"
    /\ iter[1].present # <<>>
    /\ LET r == IntoIter_next(iter[1], iterator[1].data)
       IN /\ iter' = Some(r.state)
          /\ yielded' = Append(yielded, [f \in DOMAIN r \ {"state"} |-> r[f]])
          /\ IF r.outcome = "Ok"
             THEN /\ radiotap' = Some(Dispatch(radiotap[1], r))
                  /\ UNCHANGED <<pc, ret>>
             ELSE /\ ret' = Some([outcome |-> r.outcome, err |-> r.err,
                                  value |-> None])
                  /\ pc' = "returned"
                  /\ UNCHANGED radiotap
    /\ UNCHANGED <<origin, calls, inner, reference, buf, written, iterator,
                   rest>>

\* next() returns None: Radiotap::parse returns Ok((radiotap, rest)).
ParseEnd ==
    /\ pc = "iterating"
    /\ iter[1].present = <<>>
    /\ ret' = Some([outcome |-> "Ok", err |-> "",
                    value |-> Some([radiotap |-> radiotap[1],
                                    rest |-> rest])])
    /\ pc' = "returned"
    /\ UNCHANGED <<origin, calls, inner, reference, buf, written, iterator,
                   rest, iter, radiotap, yielded>>

Next ==
    \/ BuilderSet
    \/ BuilderDone
    \/ MakeLiteral
    \/ CallUnparse
    \/ Capture
    \/ CaptureChain
    \/ ParseRest
    \/ ParseHeader
    \/ ParseField
    \/ ParseEnd

Spec == Init /\ [][Next]_vars

(***************************************************************************)
(* Helpers of the properties.                                              *)
(***************************************************************************)
StrictlySorted(p) == \A i \in 1..(Len(p) - 1) : bit(p[i]) < bit(p[i + 1])

Count(s, x) == Cardinality({i \in 1..Len(s) : s[i] = x})

CalledNames(cs) == {cs[i][1] : i \in 1..Len(cs)}

DistinctCalls(cs) == Cardinality(CalledNames(cs)) = Len(cs)

\* The value of the last call for name, None when there is none.
LastValue(cs, name) ==
    LET at == {i \in 1..Len(cs) : cs[i][1] = name}
    IN IF at = {} THEN None
       ELSE Some(cs[CHOOSE i \in at : \A j \in at : j <= i][2])

\* The kinds of a set of names in ascending bit order.
RECURSIVE SeqByBit(_)
SeqByBit(names) ==
    IF names = {} THEN <<>>
    ELSE LET m == CHOOSE x \in names : \A y \in names : BitOf[x] <= BitOf[y]
         IN <<Plain(m)>> \o SeqByBit(names \ {m})

RECURSIVE ApplyCalls(_, _)
ApplyCalls(t, cs) ==
    IF cs = <<>> THEN t
    ELSE ApplyCalls(Setter(t, Head(cs)[1], Head(cs)[2]), Tail(cs))

CallOrders(n) ==
    {q \in [1..n -> 1..n] : \A i, j \in 1..n : q[i] = q[j] => i = j}

\* The least multiple of a that is >= x.
RoundUp(x, a) == ((x + a - 1) \div a) * a

RECURSIVE RoundedLength(_, _)
RoundedLength(total, present) ==
    IF present = <<>> THEN total
    ELSE RoundedLength(RoundUp(total, align(Head(present)))
                       + size(Head(present)),
                       Tail(present))

\* A value as the builder makes them: a slot exactly for each present kind,
\* the present kinds in strictly ascending bit order, the length of the
\* padded fields.
WellFormed(v) ==
    /\ v.header.version = DefaultVersion
    /\ v.header.size = DefaultSize
    /\ StrictlySorted(v.header.present)
    /\ \A i \in 1..Len(v.header.present) :
          v.header.present[i].name \in SlotNames
    /\ \A n \in SlotNames :
          (v.slots[n] # None) <=> Contains(v.header.present, Plain(n))
    /\ v.header.length = LayoutEnd(DefaultSize, v.header.present)

RoundTrips ==
    /\ ret[1].outcome = "Ok"
    /\ ret[1].value[1].radiotap = reference[1]
    /\ written[1].size = ret[1].value[1].radiotap.header.length

(***************************************************************************)
(* C1 as stated: for every Radiotap value whose present list is sorted     *)
(* ascending by bit, parsing the bytes unparse wrote returns the value,    *)
(* and unparse's byte count is the parsed header.length.                   *)
(***************************************************************************)
C1_RoundTripOfAnySorted ==
    (pc = "returned" /\ reference # None
        /\ StrictlySorted(reference[1].header.present))
    => RoundTrips

(***************************************************************************)
(* C1 as amended: the round trip holds for the values that are well formed *)
(* as the builder makes them (version 0, size 8, present strictly          *)
(* ascending, a slot set exactly for each present kind, length the padded  *)
(* length of the present fields).                                          *)
(***************************************************************************)
C1_RoundTripOfWellFormed ==
    (pc = "returned" /\ reference # None /\ WellFormed(reference[1]))
    => RoundTrips

C1_Witness ==
    /\ pc = "returned"
    /\ origin = "literal"
    /\ WellFormed(reference[1])
    /\ Len(reference[1].header.present) = 3
    /\ RoundTrips

(***************************************************************************)
(* C2: for setter calls of distinct kinds, every permutation of the calls  *)
(* followed by done() gives the value this run's done() returned, and its  *)
(* present list is strictly ascending by bit.                              *)
(***************************************************************************)
C2_OrderIndependence ==
    (pc = "built" /\ origin = "builder" /\ DistinctCalls(calls))
    => /\ StrictlySorted(reference[1].header.present)
       /\ \A q \in CallOrders(Len(calls)) :
            Done(ApplyCalls(DefaultRadiotap,
                            [i \in 1..Len(calls) |-> calls[q[i]]]))
            = reference[1]

C2_Witness ==
    /\ pc = "built"
    /\ origin = "builder"
    /\ Len(calls) = 3
    /\ calls[1][1] = "Timestamp"
    /\ calls[2][1] = "Rate"
    /\ calls[3][1] = "TSFT"
    /\ reference[1].header.length = 36

(***************************************************************************)
(* C3: after any sequence of setter calls each kind is at most once in     *)
(* present (exactly once when it was set), its slot holds the value of the *)
(* last call for it, and the length after done() counts each kind once.    *)
(***************************************************************************)
C3_BuilderDedup ==
    (origin = "builder")
    => /\ \A n \in SlotNames :
            /\ Count(inner.header.present, Plain(n))
               = (IF n \in CalledNames(calls) THEN 1 ELSE 0)
            /\ inner.slots[n] = LastValue(calls, n)
       /\ reference # None =>
            /\ \A n \in SlotNames :
                /\ Count(reference[1].header.present, Plain(n))
                   = (IF n \in CalledNames(calls) THEN 1 ELSE 0)
                /\ reference[1].slots[n] = LastValue(calls, n)
            /\ reference[1].header.length
               = LayoutEnd(DefaultLength, SeqByBit(CalledNames(calls)))

C3_Witness ==
    /\ origin = "builder"
    /\ reference # None
    /\ calls = <<(<<"TSFT", 1>>), (<<"Rate", 1>>), (<<"TSFT", 2>>)>>
    /\ reference[1].slots["TSFT"] = Some(2)
    /\ reference[1].header.length = 17

(***************************************************************************)
(* C4: done() sets the length to the result of starting at 8 and, for each *)
(* present kind in ascending bit order, rounding the total up to the       *)
(* kind's align and adding its size; no setter gives the default Radiotap, *)
(* and tsft, rate and channel give 22.                                     *)
(***************************************************************************)
C4_DoneLength ==
    (origin = "builder" /\ reference # None)
    => /\ reference[1].header.present = SeqByBit(CalledNames(calls))
       /\ reference[1].header.length
          = RoundedLength(8, reference[1].header.present)
       /\ calls = <<>> => reference[1] = DefaultRadiotap
       /\ CalledNames(calls) = {"TSFT", "Rate", "Channel"}
            => reference[1].header.length = 22

C4_Witness ==
    /\ origin = "builder"
    /\ reference # None
    /\ CalledNames(calls) = {"TSFT", "Rate", "Channel"}
    /\ reference[1].header.length = 22

C4_WitnessEmpty ==
    /\ origin = "builder"
    /\ calls = <<>>
    /\ reference = Some(DefaultRadiotap)

(***************************************************************************)
(* C5: for every value the builder produced, unparse returns a byte count  *)
(* equal to the header.length done() computed (and writes that many        *)
(* bytes).                                                                 *)
(***************************************************************************)
C5_UnparseCountIsLength ==
    (origin = "builder" /\ written # None)
    => /\ written[1].size = reference[1].header.length
       /\ Len(buf) = reference[1].header.length

C5_Witness ==
    /\ origin = "builder"
    /\ written # None
    /\ CalledNames(calls) = {"Rate", "XChannel", "Timestamp"}
    /\ written[1].size = reference[1].header.length
    /\ written[1].size = 36

(***************************************************************************)
(* C6: a field of alignment a placed at running offset o is preceded by    *)
(* exactly (a - o % a) % a padding bytes, in the length done() computes    *)
(* and in the zero bytes unparse writes.                                   *)
(***************************************************************************)
C6_AlignmentPadding ==
    /\ (origin = "builder" /\ reference # None) =>
         LET p == reference[1].header.present
         IN \A i \in 1..Len(p) :
              LET o == Fold(inner.header.length, SubSeq(p, 1, i - 1))
              IN Fold(inner.header.length, SubSeq(p, 1, i))
                 = o + PadTo(o, align(p[i])) + size(p[i])
    /\ written # None =>
         \A i \in 1..Len(written[1].pads) :
            LET w == written[1].pads[i]
            IN /\ w.pad = PadTo(w.offset, align(w.kind))
               /\ \A j \in (w.offset + 1)..(w.offset + w.pad) : buf[j] = 0
               /\ (w.offset + w.pad) % align(w.kind) = 0

C6_Witness ==
    /\ origin = "builder"
    /\ written # None
    /\ \E i \in 1..Len(written[1].pads) :
          /\ written[1].pads[i].pad = 7
          /\ written[1].pads[i].kind = Plain("Timestamp")
    /\ \E i \in 1..Len(written[1].pads) :
          /\ written[1].pads[i].pad = 0
          /\ written[1].pads[i].offset = 8
          /\ written[1].pads[i].kind = Plain("TSFT")

(***************************************************************************)
(* Helpers of the parsing properties.                                      *)
(***************************************************************************)
DeclaredLength(b) == b[3] + 256 * b[4]

Failed(e) == ret = Some([outcome |-> "Err", err |-> e, value |-> None])

\* Whether the byte window of some present field, laid out from pos by
\* the format's rules (padding, size, a vendor section's descriptor and
\* skipped payload), ends past the end of the region.
RECURSIVE Overruns(_, _, _)
Overruns(present, pos, data) ==
    IF present = <<>> THEN FALSE
    ELSE LET k == Head(present)
             start == pos + PadTo(pos, align(k))
             end == start + size(k)
         IN IF end > Len(data) THEN TRUE
            ELSE IF k.name = "VendorNamespace"
            THEN LET skip == data[start + 5] + 256 * data[start + 6]
                 IN IF end + skip > Len(data) THEN TRUE
                    ELSE Overruns(Tail(present), end + skip, data)
            ELSE Overruns(Tail(present), end, data)

\* The same, looking only at the fixed-size windows next() checks and
\* stopping at a vendor section whose payload overruns.
RECURSIVE FixedWindowOverruns(_, _, _)
FixedWindowOverruns(present, pos, data) ==
    IF present = <<>> THEN FALSE
    ELSE LET k == Head(present)
             start == pos + PadTo(pos, align(k))
             end == start + size(k)
         IN IF end > Len(data) THEN TRUE
            ELSE IF k.name = "VendorNamespace"
            THEN LET skip == data[start + 5] + 256 * data[start + 6]
                 IN IF end + skip > Len(data) THEN FALSE
                    ELSE FixedWindowOverruns(Tail(present), end + skip, data)
            ELSE FixedWindowOverruns(Tail(present), end, data)

(***************************************************************************)
(* C7: when the header is accepted but the byte window of a present field  *)
(* extends past the end of the governed region, parse fails with           *)
(* IncompleteError and returns no Radiotap value.                          *)
(***************************************************************************)
C7_TruncatedFieldIsIncomplete ==
    (pc = "returned" /\ iterator # None
        /\ Overruns(iterator[1].header.present, iterator[1].header.size,
                    iterator[1].data))
    => Failed("IncompleteError")

\* What the code does keep of C7: a fixed-size window past the end of the
\* region gives IncompleteError; the other overruns are the vendor payloads
\* that the slice in next() panics on.
C7_FixedWindowIsIncomplete ==
    (pc = "returned" /\ iterator # None)
    => /\ FixedWindowOverruns(iterator[1].header.present,
                              iterator[1].header.size, iterator[1].data)
            => Failed("IncompleteError")
       /\ (Overruns(iterator[1].header.present, iterator[1].header.size,
                    iterator[1].data)
           /\ ~Failed("IncompleteError"))
            => /\ ret[1].outcome = "Panic"
               /\ yielded[Len(yielded)].popped = VendorNamespaceKind(None)

(***************************************************************************)
(* C8 as stated: parsing any buffer whose header declares a length greater *)
(* than the number of bytes supplied fails with InvalidLength.             *)
(***************************************************************************)
C8_OverrunIsInvalidLength ==
    (pc = "returned" /\ Len(buf) >= 4 /\ DeclaredLength(buf) > Len(buf))
    => Failed("InvalidLength")

(***************************************************************************)
(* C8 as amended: parsing any buffer whose version byte is the supported   *)
(* one and whose header declares a length greater than the number of bytes *)
(* supplied fails with InvalidLength; the input is never split at an       *)
(* offset beyond its end.                                                  *)
(***************************************************************************)
C8_OverrunOfSupportedVersion ==
    /\ (pc = "returned" /\ Len(buf) >= 4 /\ buf[1] = DefaultVersion
            /\ DeclaredLength(buf) > Len(buf))
        => (Failed("InvalidLength") /\ iterator = None)
    /\ ret # None => ~(ret[1].outcome = "Panic" /\ ret[1].err = "split_at")
    /\ iterator # None => iterator[1].header.length <= Len(buf)

C8_Witness ==
    /\ pc = "returned"
    /\ Len(buf) >= 8
    /\ buf[1] = DefaultVersion
    /\ DeclaredLength(buf) = Len(buf) + 1
    /\ Failed("InvalidLength")

(***************************************************************************)
(* C9: parsing any buffer whose version byte is not 0 fails with           *)
(* UnsupportedVersion, whatever the rest of the buffer holds.              *)
(***************************************************************************)
C9_VersionRejection ==
    (pc = "returned" /\ Len(buf) >= 1 /\ buf[1] # 0)
    => Failed("UnsupportedVersion")

C9_Witness ==
    /\ pc = "returned"
    /\ Len(buf) >= 4
    /\ buf[1] = 1
    /\ DeclaredLength(buf) > Len(buf)
    /\ Failed("UnsupportedVersion")

(***************************************************************************)
(* C10: a yielded vendor-namespace item has a data slice that starts right *)
(* after the 6-byte descriptor and is skip_length long, its kind carries   *)
(* the decoded descriptor, and the cursor is left at the end of the        *)
(* payload: the next field is read from there after its own alignment.     *)
(***************************************************************************)
C10_VendorSplice ==
    \A i \in 1..Len(yielded) :
        (yielded[i].outcome = "Ok"
            /\ yielded[i].popped = VendorNamespaceKind(None))
        => LET y == yielded[i]
               data == iterator[1].data
               desc == y.from + PadTo(y.from, 2)
               skip == data[desc + 5] + 256 * data[desc + 6]
           IN /\ y.start = desc + 6
              /\ Len(y.data) = skip
              /\ y.end = y.start + skip
              /\ y.data = [j \in 1..skip |-> data[y.start + j]]
              /\ y.kind.name = "VendorNamespace"
              /\ y.kind.vns
                 = Some([oui |-> <<data[desc + 1], data[desc + 2],
                                   data[desc + 3]>>,
                         sub_namespace |-> data[desc + 4],
                         skip_length |-> skip])
              /\ i = Len(yielded) => iter[1].position = y.end
              /\ i < Len(yielded) =>
                    /\ yielded[i + 1].from = y.end
                    /\ yielded[i + 1].outcome = "Ok" =>
                          yielded[i + 1].start
                          = y.end + PadTo(y.end, align(yielded[i + 1].popped))

C10_Witness ==
    /\ Len(yielded) >= 2
    /\ LET i == Len(yielded) - 1
       IN /\ yielded[i].outcome = "Ok"
          /\ yielded[i].popped = VendorNamespaceKind(None)
          /\ Len(yielded[i].data) = 1
          /\ yielded[i + 1].outcome = "Ok"
          /\ yielded[i + 1].popped = Plain("Channel")
          /\ yielded[i + 1].start = yielded[i].end + 1

(***************************************************************************)
(* C11: a successful parse consumes exactly header.length bytes: the       *)
(* remainder is the input without its first header.length bytes, and       *)
(* parsing the remainder parses the capture that follows.                  *)
(***************************************************************************)
C11_RemainderAfterLength ==
    /\ (pc = "returned" /\ ret[1].outcome = "Ok") =>
         LET v == ret[1].value[1]
             n == v.radiotap.header.length
         IN /\ Len(v.rest) = Len(buf) - n
            /\ \A i \in 1..Len(v.rest) : v.rest[i] = buf[n + i]
            /\ iterator[1].data \o v.rest = buf
    /\ (pc = "returned" /\ origin = "rest") =>
         /\ ret[1].outcome = "Ok"
         /\ ret[1].value[1].rest = <<>>
         /\ ret[1].value[1].radiotap.header
            = [version |-> 0, length |-> 9, present |-> <<Plain("Rate")>>,
               size |-> 8]
         /\ ret[1].value[1].radiotap.slots["Rate"] = Some(5)

C11_Witness ==
    /\ pc = "returned"
    /\ origin = "chain"
    /\ ret[1].outcome = "Ok"
    /\ ret[1].value[1].rest = NextCapture
    /\ ret[1].value[1].radiotap.header.length = Len(buf) - 9
    /\ Len(ret[1].value[1].radiotap.header.present) = 5

C11_WitnessChained ==
    /\ pc = "returned"
    /\ origin = "rest"
    /\ ret[1].outcome = "Ok"

(***************************************************************************)
(* C12: when a kind is yielded more than once during a parse, its typed    *)
(* slot holds the value decoded from the last occurrence; a kind that was  *)
(* not yielded has no value.                                               *)
(***************************************************************************)
\* The positions in the yielded items of the fields of this name.
YieldedAt(name) ==
    {i \in 1..Len(yielded) :
        yielded[i].outcome = "Ok" /\ yielded[i].kind.name = name}

LastYielded(name) ==
    yielded[CHOOSE i \in YieldedAt(name) : \A j \in YieldedAt(name) : j <= i]

SlotsHoldLast(t) ==
    \A n \in SlotNames :
        t.slots[n] = (IF YieldedAt(n) = {} THEN None
                      ELSE Some(LEValue(LastYielded(n).data)))

C12_LastOccurrenceWins ==
    /\ radiotap # None => SlotsHoldLast(radiotap[1])
    /\ (pc = "returned" /\ ret[1].outcome = "Ok")
         => SlotsHoldLast(ret[1].value[1].radiotap)

C12_Witness ==
    /\ pc = "returned"
    /\ ret[1].outcome = "Ok"
    /\ Cardinality(YieldedAt("Flags")) = 2
    /\ \E i \in YieldedAt("Flags") : yielded[i].data = <<2>>
    /\ LastYielded("Flags").data = <<1>>
    /\ ret[1].value[1].radiotap.slots["Flags"] = Some(1)

(***************************************************************************)
(* C13: after a vendor descriptor has been decoded, the widened end        *)
(* (descriptor end + skip_length) is checked against the region length;    *)
(* when it exceeds it, next() yields IncompleteError, and so parse fails   *)
(* with IncompleteError, instead of slicing past the end.                  *)
(***************************************************************************)
\* Whether the i-th call of next() popped a vendor namespace whose
\* descriptor lies inside the region and whose payload ends past it.
VendorPayloadOverruns(i) ==
    LET y == yielded[i]
        data == iterator[1].data
        start == y.from + PadTo(y.from, align(y.popped))
        end == start + size(y.popped)
    IN /\ y.popped = VendorNamespaceKind(None)
       /\ end <= Len(data)
       /\ end + data[start + 5] + 256 * data[start + 6] > Len(data)

C13_WidenedEndIsRechecked ==
    \A i \in 1..Len(yielded) :
        VendorPayloadOverruns(i)
        => /\ yielded[i].outcome = "Err"
           /\ yielded[i].err = "IncompleteError"
           /\ pc = "returned"
           /\ Failed("IncompleteError")

(***************************************************************************)
(* C14 as stated: the iterator yields the kinds of header.present in list  *)
(* order with the cursor starting at header.size, and each yielded window  *)
(* starts at the smallest multiple of the kind's align that is >= the      *)
(* previous window's end (>= header.size for the first); the cursor never  *)
(* moves backwards, windows never overlap, and every yielded window lies   *)
(* inside the governed region.                                             *)
(***************************************************************************)
\* The cursor before the i-th call of next(), by the claim's rule: the
\* header's size, then the end of the previous yielded window.
PreviousEnd(i) ==
    IF i = 1 THEN iterator[1].header.size ELSE yielded[i - 1].end

\* The kinds come off in the order of header.present.
YieldsInListOrder ==
    /\ Len(yielded) <= Len(iterator[1].header.present)
    /\ \A i \in 1..Len(yielded) :
          /\ yielded[i].popped = iterator[1].header.present[i]
          /\ yielded[i].outcome = "Ok" =>
                yielded[i].kind.name = yielded[i].popped.name

\* The cursor starts at header.size, follows the yielded windows and never
\* moves backwards; the windows are disjoint and inside the region.
CursorAdvances ==
    /\ \A i \in 1..Len(yielded) :
          /\ yielded[i].from = PreviousEnd(i)
          /\ yielded[i].outcome = "Ok" =>
                /\ yielded[i].from <= yielded[i].start
                /\ yielded[i].start <= yielded[i].end
                /\ yielded[i].end <= Len(iterator[1].data)
                /\ yielded[i].data
                   = [j \in 1..(yielded[i].end - yielded[i].start)
                        |-> iterator[1].data[yielded[i].start + j]]
    /\ \A i, j \in 1..Len(yielded) :
          (i < j /\ yielded[j].outcome = "Ok")
          => yielded[i].end <= yielded[j].start
    /\ iter[1].position
       >= (IF yielded = <<>> THEN iterator[1].header.size
           ELSE yielded[Len(yielded)].from)

C14_EveryWindowStartsAligned ==
    iterator # None =>
        /\ YieldsInListOrder
        /\ CursorAdvances
        /\ \A i \in 1..Len(yielded) :
              yielded[i].outcome = "Ok" =>
                  yielded[i].start
                  = RoundUp(PreviousEnd(i), align(yielded[i].popped))

(***************************************************************************)
(* C14 amended: as above, except that the window yielded for a vendor      *)
(* namespace starts size (6) bytes after the aligned offset, behind its    *)
(* descriptor; the window of every other kind starts at the smallest       *)
(* multiple of its align that is >= the previous window's end.             *)
(***************************************************************************)
C14_WindowsFollowAlignedCursor ==
    iterator # None =>
        /\ YieldsInListOrder
        /\ CursorAdvances
        /\ \A i \in 1..Len(yielded) :
              yielded[i].outcome = "Ok" =>
                  yielded[i].start
                  = RoundUp(PreviousEnd(i), align(yielded[i].popped))
                    + (IF yielded[i].popped = VendorNamespaceKind(None)
                       THEN size(yielded[i].popped) ELSE 0)

C14_Witness ==
    /\ pc = "returned"
    /\ ret[1].outcome = "Ok"
    /\ Len(yielded) >= 4
    /\ \E i \in 1..Len(yielded) :
          /\ yielded[i].popped # VendorNamespaceKind(None)
          /\ yielded[i].start > yielded[i].from
    /\ \E i \in 1..Len(yielded) :
          /\ yielded[i].popped = VendorNamespaceKind(None)
          /\ yielded[i].start = RoundUp(yielded[i].from, 2) + 6
          /\ yielded[i].end > yielded[i].start
          /\ i < Len(yielded)

(***************************************************************************)
(* C15: builder presence invariant.  At every point during building and in *)
(* the value returned by done(), a kind is in header.present if and only   *)
(* if a setter for that kind has been called, which is exactly when that   *)
(* kind's typed slot is Some; the calls only accumulate, so no operation   *)
(* removes a kind from present or clears a slot.                           *)
(***************************************************************************)
PresenceMatchesCalls(t) ==
    /\ \A n \in SlotNames :
          /\ Contains(t.header.present, Plain(n)) <=> n \in CalledNames(calls)
          /\ n \in CalledNames(calls) <=> t.slots[n] # None
    /\ \A i \in 1..Len(t.header.present) :
          \E n \in CalledNames(calls) : t.header.present[i] = Plain(n)

C15_BuilderPresence ==
    /\ pc \in {"start", "building"} => PresenceMatchesCalls(inner)
    /\ origin = "builder" =>
          /\ PresenceMatchesCalls(inner)
          /\ reference # None => PresenceMatchesCalls(reference[1])

C15_Witness ==
    /\ origin = "builder"
    /\ pc = "built"
    /\ Len(calls) = 3
    /\ CalledNames(calls) = {"Rate", "Channel"}
    /\ reference[1].header.present = <<Plain("Rate"), Plain("Channel")>>
    /\ reference[1].slots["Rate"] # None
    /\ reference[1].slots["Channel"] # None
    /\ reference[1].slots["TSFT"] = None

(***************************************************************************)
(* C16: field iteration is finite and single-pass.  Every call of next()   *)
(* removes exactly one kind from the remaining present list, whether it    *)
(* yields Ok or an error, so for a header with n present kinds at most n   *)
(* items are yielded; then the list is empty, next() returns None and the  *)
(* loop of parse ends.  The number of remaining kinds bounds the loop.     *)
(***************************************************************************)
C16_FiniteSinglePass ==
    iterator # None =>
        LET n == Len(iterator[1].header.present)
        IN /\ Len(yielded) <= n
           /\ Len(iter[1].present) = n - Len(yielded)
           /\ iter[1].present
              = Reverse(SubSeq(iterator[1].header.present,
                               Len(yielded) + 1, n))
           /\ \A i \in 1..(Len(yielded) - 1) : yielded[i].outcome = "Ok"
           /\ (pc = "iterating" /\ iter[1].present # <<>>)
                => Len(yielded) < n
           /\ (pc = "iterating" /\ iter[1].present = <<>>)
                => ENABLED ParseEnd
           /\ (pc = "returned" /\ ret[1].outcome = "Ok")
                => /\ iter[1].present = <<>>
                   /\ Len(yielded) = n
           /\ (pc = "returned" /\ ret[1].outcome # "Ok")
                => /\ yielded # <<>>
                   /\ yielded[Len(yielded)].outcome = ret[1].outcome

C16_Witness ==
    /\ pc = "returned"
    /\ iterator # None
    /\ Failed("IncompleteError")
    /\ Len(yielded) >= 2
    /\ Len(iter[1].present) >= 1
    /\ Len(yielded) + Len(iter[1].present)
       = Len(iterator[1].header.present)

C16_WitnessExhausted ==
    /\ pc = "returned"
    /\ iterator # None
    /\ ret[1].outcome = "Ok"
    /\ Len(yielded) = 5
    /\ iter[1].present = <<>>

====
